---------------------------- MODULE Spec2Model ----------------------------
(***************************************************************************)
(* Model of the executor gateway (code/executor/src/lib.rs).               *)
(*                                                                         *)
(*   launch_websocket  one acceptor task: Executor::new, bind, emit        *)
(*                     Connected, then the accept / handshake / spawn loop *)
(*   launch            a channel-backed Session over SimpleComm            *)
(*   handle_client     one Session: Process::run until it returns          *)
(*                                                                         *)
(* Process::run and WebSocketComm live in process.rs, which is not part of *)
(* the sources at hand: the Session loop (Idle / Handling / Closed) and    *)
(* the socket transport follow sections 4.1 and 4.4 of the specification.  *)
(***************************************************************************)
EXTENDS Naturals, Sequences, FiniteSets

\* Session slots (connections served plus launch() calls).
MaxSess == 2
\* Requests submitted in one run, by all peers together.
MaxReq == 2
\* Responses the dispatcher produces for one request.
MaxResp == 2

VARIABLES
    acc,      \* the acceptor task spawned by launch_websocket
    events,   \* the Event channel returned by launch_websocket
    sess      \* the Sessions, by slot

vars == <<acc, events, sess>>

Slots == 1..MaxSess

--------------------------------------------------------------------------
(* Transports *)

\* A slot no Session occupies yet.
NoSession ==
    [kind |-> "none", ctx |-> "none", st |-> "Idle", cur |-> 0, pending |-> <<>>,
     outbox |-> <<>>, hung |-> FALSE, cause |-> "None", detail |-> "none",
     inq |-> <<>>, txAlive |-> TRUE, rxAlive |-> TRUE,
     submitted |-> 0, served |-> 0, dropAt |-> 0,
     released |-> FALSE, read |-> 0, eof |-> FALSE]

\* A fresh Session over a fresh transport of kind k ("chan" or "ws"), holding
\* the Executor handle c: both queues empty, the peer holding both of its
\* endpoints.
NewSession(k, c) == [NoSession EXCEPT !.kind = k, !.ctx = c]

\* Frames of the socket stream: a request, the peer's Close frame, or the
\* point at which the connection broke.
RequestFrame(n) == <<"req", n>>
CloseFrame == <<"close", 0>>
ResetMark == <<"reset", 0>>

IsRequest(f) == f[1] = "req"

\* SimpleComm::recv, the mutant: the newest queued packet first.
SimpleCommRecvLifo(r) ==
    IF r.inq # <<>>
    THEN [ok |-> TRUE, pkt |-> r.inq[Len(r.inq)], detail |-> "none",
          inq |-> SubSeq(r.inq, 1, Len(r.inq) - 1)]
    ELSE [ok |-> FALSE, pkt |-> 0, detail |-> "closed", inq |-> r.inq]

\* SimpleComm::recv, the mutant: fails as soon as the sender is gone.
SimpleCommRecvEager(r) ==
    IF r.inq # <<>> /\ r.txAlive
    THEN [ok |-> TRUE, pkt |-> Head(r.inq), detail |-> "none", inq |-> Tail(r.inq)]
    ELSE [ok |-> FALSE, pkt |-> 0, detail |-> "closed", inq |-> r.inq]

\* SimpleComm::recv: rx.recv() yields the oldest queued packet; None, turned
\* into the error "Failed to receive packet", once the queue is empty and
\* every sender is dropped.
SimpleCommRecv(r) ==
    IF r.inq # <<>>
    THEN [ok |-> TRUE, pkt |-> Head(r.inq), detail |-> "none", inq |-> Tail(r.inq)]
    ELSE [ok |-> FALSE, pkt |-> 0, detail |-> "closed", inq |-> r.inq]

\* SimpleComm::recv, the mutant: a sender kept alive on the Session's side,
\* so that rx.recv() never sees the channel closed.
SimpleCommRecvReadyLeak(r) == r.inq # <<>>

\* SimpleComm::recv returns (is not suspended in rx.recv().await).
SimpleCommRecvReady(r) == r.inq # <<>> \/ ~r.txAlive

\* SimpleComm::send, the mutant: the error of tx.send is swallowed.
SimpleCommSendIgnore(r, p) == [ok |-> TRUE, outbox |-> r.outbox]

\* SimpleComm::send: tx.send(packet)? fails iff the receiver is dropped.
SimpleCommSend(r, p) ==
    IF r.rxAlive
    THEN [ok |-> TRUE, outbox |-> Append(r.outbox, p)]
    ELSE [ok |-> FALSE, outbox |-> r.outbox]

\* WebSocketComm::recv: the next frame of the stream; a Close frame is the
\* "closed" error, a broken connection the underlying I/O error.
WebSocketCommRecv(r) ==
    IF IsRequest(Head(r.inq))
    THEN [ok |-> TRUE, pkt |-> Head(r.inq)[2], detail |-> "none", inq |-> Tail(r.inq)]
    ELSE [ok |-> FALSE, pkt |-> 0,
          detail |-> (IF Head(r.inq) = CloseFrame THEN "closed" ELSE "io"),
          inq |-> r.inq]

\* WebSocketComm::recv returns: a frame or the end of the stream is there.
WebSocketCommRecvReady(r) == r.inq # <<>>

\* WebSocketComm::send: one frame written; fails if the socket write fails.
WebSocketCommSend(r, p) ==
    IF r.rxAlive
    THEN [ok |-> TRUE, outbox |-> Append(r.outbox, p)]
    ELSE [ok |-> FALSE, outbox |-> r.outbox]

\* The Comm trait: recv and send of whichever transport the Session owns.
CommRecv(r) == IF r.kind = "chan" THEN SimpleCommRecv(r) ELSE WebSocketCommRecv(r)

CommRecvReady(r) ==
    IF r.kind = "chan" THEN SimpleCommRecvReady(r) ELSE WebSocketCommRecvReady(r)

CommSend(r, p) ==
    IF r.kind = "chan" THEN SimpleCommSend(r, p) ELSE WebSocketCommSend(r, p)

--------------------------------------------------------------------------
(* The peer of a transport *)

\* The peer can still submit: it holds its sender / its write side is open.
CanSubmit(r) == r.kind # "none" /\ r.txAlive /\ ~r.released

\* What the peer can still do to a live Session's transport.
CanClose(r) == r.kind # "none" /\ r.st # "Closed" /\ r.txAlive

CanStopReading(r) == r.kind # "none" /\ r.st # "Closed" /\ r.rxAlive

CanDisconnect(r) ==
    r.kind # "none" /\ r.st # "Closed" /\ (r.txAlive \/ r.rxAlive)

\* The peer awaits the next response: one is there to read, or the Session
\* has released its sender and the closure is there to observe.
PeerRecvReady(r) ==
    /\ r.kind # "none" /\ r.rxAlive /\ ~r.eof
    /\ r.read < Len(r.outbox) \/ r.released

\* The peer reads the next response, or, with all of them read, observes
\* the closure.
PeerRecv(r) ==
    IF r.read < Len(r.outbox) THEN [r EXCEPT !.read = @ + 1]
    ELSE [r EXCEPT !.eof = TRUE]

\* The peer submits its next request (requests are numbered 1, 2, ... per
\* transport, in the order submitted).
Submit(r) ==
    [r EXCEPT !.inq = Append(@, IF r.kind = "chan" THEN r.submitted + 1
                                 ELSE RequestFrame(r.submitted + 1)),
              !.submitted = @ + 1]

\* The peer closes gracefully: it drops its request sender (channel), or
\* sends a Close frame after what it has written (socket).
CloseGracefully(r) ==
    IF r.kind = "chan"
    THEN [r EXCEPT !.txAlive = FALSE]
    ELSE [r EXCEPT !.txAlive = FALSE, !.inq = Append(@, CloseFrame)]

\* The peer stops reading: it drops its response receiver (channel), or
\* shuts the direction the responses travel in (socket).
StopReading(r) ==
    [r EXCEPT !.rxAlive = FALSE,
              !.dropAt = IF r.rxAlive THEN r.submitted ELSE @]

\* The peer disconnects: it drops both endpoints (channel), or the
\* connection breaks (socket), after what was already delivered.
Disconnect(r) ==
    IF r.kind = "chan"
    THEN [StopReading(r) EXCEPT !.txAlive = FALSE]
    ELSE [StopReading(r) EXCEPT !.txAlive = FALSE,
                                !.inq = IF r.txAlive THEN Append(@, ResetMark) ELSE @]

--------------------------------------------------------------------------
(* Process::run, the Session loop *)

\* The responses the dispatcher produces for request k, in order.
Responses(k, n) == [i \in 1..n |-> <<k, i>>]

\* handle_client, the mutant: the transport outlives the Session.
ReleaseLeak(r) == [r EXCEPT !.pending = <<>>]

\* handle_client, the mutant: run is called again after it has failed.
ReleaseRestart(r) == [r EXCEPT !.st = "Idle", !.pending = <<>>]

\* run has returned: the Process and with it the transport are dropped. The
\* requests still queued and the responses not yet sent go with them; what
\* was sent stays with the peer. (cur keeps the request it ended on.)
Release(r) == [r EXCEPT !.inq = <<>>, !.pending = <<>>, !.released = TRUE]

\* Idle: the Session awaits comm.recv().
RunRecvReady(r) == r.kind # "none" /\ r.st = "Idle" /\ CommRecvReady(r)

\* Idle -> Handling on a received request, Idle -> Closed when recv fails.
RunRecv(r) ==
    LET got == CommRecv(r) IN
    IF got.ok
    THEN [r EXCEPT !.st = "Handling", !.cur = got.pkt, !.inq = got.inq]
    ELSE Release([r EXCEPT !.st = "Closed", !.cause = "Recv", !.detail = got.detail])

\* Handling: the dispatcher call is pending (it has neither returned nor
\* been found to hang).
Dispatching(r) ==
    r.kind # "none" /\ r.st = "Handling" /\ r.pending = <<>> /\ ~r.hung

\* The dispatcher returns n responses; with none to send the Session is
\* Idle again at once.
RunDispatchOk(r, n) ==
    IF n = 0
    THEN [r EXCEPT !.st = "Idle", !.cur = 0, !.served = @ + 1]
    ELSE [r EXCEPT !.pending = Responses(r.cur, n)]

\* Handling -> Closed: the dispatcher fails.
RunDispatchErr(r) == Release([r EXCEPT !.st = "Closed", !.cause = "Dispatch"])

\* The dispatcher call never returns.
RunDispatchHang(r) == [r EXCEPT !.hung = TRUE]

\* Handling: a produced response is to be sent.
RunSendReady(r) == r.kind # "none" /\ r.st = "Handling" /\ r.pending # <<>>

\* The next response is sent; after the last one the Session is Idle
\* again; a failed send closes the Session.
RunSend(r) ==
    LET put == CommSend(r, Head(r.pending)) IN
    IF ~put.ok
    THEN Release([r EXCEPT !.st = "Closed", !.cause = "Send"])
    ELSE IF Len(r.pending) = 1
    THEN [r EXCEPT !.outbox = put.outbox, !.pending = <<>>,
                   !.st = "Idle", !.cur = 0, !.served = @ + 1]
    ELSE [r EXCEPT !.outbox = put.outbox, !.pending = Tail(@)]

\* handle_client, the mutant: an error of run takes the process down.
HandleClientAbort(a, r) ==
    IF r.st = "Closed" THEN [a EXCEPT !.pc = "done", !.exit = "session"] ELSE a

\* handle_client: an error returned by run is logged and nothing else; the
\* acceptor task is what it was.
HandleClient(a, r) == a

--------------------------------------------------------------------------
(* Executor::new and launch *)

\* clone, the mutant: a clone builds a context of its own.
ExecutorCloneRebuild(c) == "copy"

\* Executor derives Clone and its one field is an Arc<Inner>: a clone is
\* another handle to the same context.
ExecutorClone(c) == c

NumSess == Cardinality({s \in Slots : sess[s].kind # "none"})

\* Connections accepted and still in the upgrade handshake.
InHandshake == IF acc.pc = "handshake" THEN 1 ELSE 0

FreeSlot == NumSess + 1

HasRoom == NumSess + InHandshake < MaxSess

\* launch, the mutant: the Session is spawned before the context is built.
LaunchErrSpawns(ss) == [ss EXCEPT ![FreeSlot] = NewSession("chan", "none")]

\* launch when Executor::new fails: the ? returns the error first.
LaunchErrSessions(ss) == ss

\* launch: Executor::new succeeds, the two channels are made, the Session
\* over SimpleComm is spawned and (tx2, rx1) returned.
LaunchOk ==
    /\ HasRoom
    /\ sess' = [sess EXCEPT ![FreeSlot] = NewSession("chan", "own")]
    /\ UNCHANGED <<acc, events>>

\* launch: Executor::new fails.
LaunchErr ==
    /\ HasRoom
    /\ sess' = LaunchErrSessions(sess)
    /\ UNCHANGED <<acc, events>>

--------------------------------------------------------------------------
(* launch_websocket, the acceptor task *)

AccInit ==
    [pc |-> "new", exit |-> "none", ctx |-> FALSE, bound |-> FALSE,
     binds |-> 0, emitted |-> 0, accepts |-> 0, upgraded |-> 0, hsFailed |-> 0]

\* Executor::new() returned Ok.
ExecutorNewOk ==
    /\ acc.pc = "new"
    /\ acc' = [acc EXCEPT !.pc = "bind", !.ctx = TRUE]
    /\ UNCHANGED <<events, sess>>

\* Executor::new, the mutant: the task goes on after the error.
ExecutorNewErrGoesOn(a) == [a EXCEPT !.pc = "bind", !.exit = "ctx"]

\* Executor::new() returned Err: logged, the task returns.
ExecutorNewErrTask(a) == [a EXCEPT !.pc = "done", !.exit = "ctx"]

ExecutorNewErr ==
    /\ acc.pc = "new"
    /\ acc' = ExecutorNewErrTask(acc)
    /\ UNCHANGED <<events, sess>>

\* TcpListener::bind returned Ok.
BindOk ==
    /\ acc.pc = "bind"
    /\ acc' = [acc EXCEPT !.pc = "emit", !.bound = TRUE, !.binds = @ + 1]
    /\ UNCHANGED <<events, sess>>

\* bind, the mutant: the failure is logged and the task goes on.
BindErrGoesOn(a) == [a EXCEPT !.pc = "emit", !.exit = "bind", !.binds = @ + 1]

\* TcpListener::bind returned Err: logged, the task returns.
BindErrTask(a) == [a EXCEPT !.pc = "done", !.exit = "bind", !.binds = @ + 1]

BindErr ==
    /\ acc.pc = "bind"
    /\ acc' = BindErrTask(acc)
    /\ UNCHANGED <<events, sess>>

\* Connected, the mutant: the event is sent on every turn of the loop.
AfterUpgradeReemit(a) ==
    [a EXCEPT !.pc = "emit", !.upgraded = @ + 1]

\* After a spawn the loop is at listener.accept() again.
AfterUpgrade(a) == [a EXCEPT !.pc = "accept", !.upgraded = @ + 1]

\* tx.send, the mutant: a failed delivery ends the task.
SendConnectedFatal(a, delivered) ==
    IF delivered THEN [a EXCEPT !.pc = "accept", !.emitted = @ + 1]
    ELSE [a EXCEPT !.pc = "done", !.exit = "event", !.emitted = @ + 1]

\* The acceptor after tx.send(Event::Connected): is_err() is only logged,
\* so the result of the delivery does not reach the control flow.
SendConnected(a, delivered) == [a EXCEPT !.pc = "accept", !.emitted = @ + 1]

\* tx.send(Event::Connected): delivered if the observer still holds the
\* receiver, logged otherwise; either way on to the accept loop.
EmitConnected ==
    /\ acc.pc = "emit"
    /\ acc' = SendConnected(acc, events.rxAlive)
    /\ events' = IF events.rxAlive
                 THEN [events EXCEPT !.queue = Append(@, "Connected")]
                 ELSE events
    /\ UNCHANGED sess

\* accept, the mutant: the handshake is left to a task of its own and the
\* loop is back at accept at once.
AfterAcceptDetached(a) == [a EXCEPT !.accepts = @ + 1]

\* The acceptor with a socket in hand: accept_async(socket).await is the
\* next statement of the loop body.
AfterAccept(a) == [a EXCEPT !.pc = "handshake", !.accepts = @ + 1]

\* accept, the mutant: the loop awaits handle_client before it accepts again.
AcceptReadyJoined(ss) ==
    \A s \in Slots : ss[s].kind = "ws" => ss[s].st = "Closed"

\* The loop is back at listener.accept() as soon as the Session is spawned:
\* the JoinHandle of tokio::spawn is dropped, never awaited.
AcceptReady(ss) == TRUE

\* listener.accept() returned a socket.
AcceptOk ==
    /\ acc.pc = "accept"
    /\ AcceptReady(sess)
    /\ HasRoom
    /\ acc' = AfterAccept(acc)
    /\ UNCHANGED <<events, sess>>

\* accept, the mutant: the failure is logged and the loop goes on.
AcceptErrGoesOn(a) == [a EXCEPT !.pc = "accept", !.exit = "accept"]

\* listener.accept() returned Err: logged, the task returns.
AcceptErrTask(a) == [a EXCEPT !.pc = "done", !.exit = "accept"]

AcceptErr ==
    /\ acc.pc = "accept"
    /\ acc' = AcceptErrTask(acc)
    /\ UNCHANGED <<events, sess>>

\* accept_async returned the upgraded stream: it is wrapped in a
\* WebSocketComm and a Session spawned with a clone of the executor.
HandshakeOk ==
    /\ acc.pc = "handshake"
    /\ acc' = AfterUpgrade(acc)
    /\ sess' = [sess EXCEPT ![FreeSlot] = NewSession("ws", ExecutorClone("shared"))]
    /\ UNCHANGED events

\* accept_async returned Err: logged, the task returns.
HandshakeErr ==
    /\ acc.pc = "handshake"
    /\ acc' = [acc EXCEPT !.pc = "done", !.exit = "handshake", !.hsFailed = @ + 1]
    /\ UNCHANGED <<events, sess>>

\* The observer drops the receiver launch_websocket returned.
ObserverDrop ==
    /\ events.rxAlive
    /\ acc.emitted = 0 /\ acc.pc # "done"
    /\ events' = [events EXCEPT !.rxAlive = FALSE]
    /\ UNCHANGED <<acc, sess>>

--------------------------------------------------------------------------
(* Steps of one Session and of its peer *)

\* tokio::spawn, the mutant: handle_client is awaited where it is called, so
\* a Session runs only once those before it have ended.
SpawnedInline(ss, s) ==
    \A t \in Slots : t < s => ss[t].kind = "none" \/ ss[t].st = "Closed"

\* spawn, the mutant: the Sessions are tasks scoped to the acceptor task and
\* end with it.
SpawnedScoped(ss, s) == acc.pc # "done"

\* tokio::spawn(handle_client(..)): every Session is a task of its own,
\* polled whatever the other tasks do.
Spawned(ss, s) == TRUE

Submitted == LET RECURSIVE Sum(_)
                 Sum(n) == IF n = 0 THEN 0 ELSE sess[n].submitted + Sum(n - 1)
             IN Sum(MaxSess)

PeerSubmit(s) ==
    /\ CanSubmit(sess[s])
    /\ Submitted < MaxReq
    /\ sess' = [sess EXCEPT ![s] = Submit(@)]
    /\ UNCHANGED <<acc, events>>

PeerClose(s) ==
    /\ CanClose(sess[s])
    /\ sess' = [sess EXCEPT ![s] = CloseGracefully(@)]
    /\ UNCHANGED <<acc, events>>

PeerStopReading(s) ==
    /\ CanStopReading(sess[s])
    /\ sess' = [sess EXCEPT ![s] = StopReading(@)]
    /\ UNCHANGED <<acc, events>>

PeerDisconnect(s) ==
    /\ CanDisconnect(sess[s])
    /\ sess' = [sess EXCEPT ![s] = Disconnect(@)]
    /\ UNCHANGED <<acc, events>>

PeerRead(s) ==
    /\ PeerRecvReady(sess[s])
    /\ sess' = [sess EXCEPT ![s] = PeerRecv(@)]
    /\ UNCHANGED <<acc, events>>

SessRecv(s) ==
    /\ Spawned(sess, s)
    /\ RunRecvReady(sess[s])
    /\ sess' = [sess EXCEPT ![s] = RunRecv(@)]
    /\ acc' = HandleClient(acc, sess'[s])
    /\ UNCHANGED events

DispatchOk(s) ==
    /\ Spawned(sess, s)
    /\ Dispatching(sess[s])
    /\ \E n \in 0..MaxResp : sess' = [sess EXCEPT ![s] = RunDispatchOk(@, n)]
    /\ UNCHANGED <<acc, events>>

DispatchErr(s) ==
    /\ Spawned(sess, s)
    /\ Dispatching(sess[s])
    /\ sess' = [sess EXCEPT ![s] = RunDispatchErr(@)]
    /\ acc' = HandleClient(acc, sess'[s])
    /\ UNCHANGED events

DispatchHang(s) ==
    /\ Spawned(sess, s)
    /\ Dispatching(sess[s])
    /\ sess' = [sess EXCEPT ![s] = RunDispatchHang(@)]
    /\ UNCHANGED <<acc, events>>

SessSend(s) ==
    /\ Spawned(sess, s)
    /\ RunSendReady(sess[s])
    /\ sess' = [sess EXCEPT ![s] = RunSend(@)]
    /\ acc' = HandleClient(acc, sess'[s])
    /\ UNCHANGED events

--------------------------------------------------------------------------
(* The system *)

Init ==
    /\ acc = AccInit
    /\ events = [queue |-> <<>>, rxAlive |-> TRUE, seen |-> "none"]
    /\ sess = [s \in Slots |-> NoSession]

Acceptor ==
    \/ ExecutorNewOk
    \/ ExecutorNewErr
    \/ BindOk
    \/ BindErr
    \/ EmitConnected
    \/ AcceptOk
    \/ AcceptErr
    \/ HandshakeOk
    \/ HandshakeErr

Peer(s) ==
    \/ PeerSubmit(s)
    \/ PeerClose(s)
    \/ PeerStopReading(s)
    \/ PeerDisconnect(s)

Session(s) ==
    \/ SessRecv(s)
    \/ DispatchOk(s)
    \/ DispatchErr(s)
    \/ DispatchHang(s)
    \/ SessSend(s)

Next ==
    \/ Acceptor
    \/ ObserverDrop
    \/ LaunchOk
    \/ LaunchErr
    \/ \E s \in Slots : Peer(s) \/ Session(s)

Spec == Init /\ [][Next]_vars

--------------------------------------------------------------------------
(* The listener while no peer submits a request *)

ListenerNext ==
    \/ Acceptor
    \/ ObserverDrop
    \/ LaunchOk
    \/ LaunchErr
    \/ \E s \in Slots :
          PeerClose(s) \/ PeerStopReading(s) \/ PeerDisconnect(s) \/ SessRecv(s)

ListenerSpec == Init /\ [][ListenerNext]_vars

\* The observer's receiver, the mutant: a sender outlives the acceptor task.
SenderDroppedNever(a) == FALSE

\* The one sender of the Event channel was moved into the acceptor task: it
\* is dropped when the task returns, and not before.
SenderDropped(a) == a.pc = "done"

\* The observer awaits rx.recv() for the first time: the event, or None once
\* the queue is empty and the sender dropped.
ObserverRecv ==
    /\ events.rxAlive /\ events.seen = "none"
    /\ events.queue # <<>> \/ SenderDropped(acc)
    /\ events' = IF events.queue # <<>>
                 THEN [events EXCEPT !.seen = Head(events.queue), !.queue = Tail(@)]
                 ELSE [events EXCEPT !.seen = "closed"]
    /\ UNCHANGED <<acc, sess>>

\* The listener and an observer that reads the Event channel. (Reading takes
\* nothing from the acceptor, so the other specifications leave the event
\* where it was queued.)
StartupNext == ListenerNext \/ ObserverRecv

\* The acceptor task is polled through its startup: Executor::new returns,
\* bind resolves, the event is sent; an observer that waits is woken.
FairStartupSpec ==
    /\ Init /\ [][StartupNext]_vars
    /\ WF_vars(ExecutorNewOk \/ ExecutorNewErr)
    /\ WF_vars(BindOk \/ BindErr)
    /\ WF_vars(EmitConnected)
    /\ WF_vars(ObserverRecv)

--------------------------------------------------------------------------
(* Sessions already spawned *)

\* The acceptor task back at listener.accept() after k connections were
\* upgraded and none failed.
AccServing(k) ==
    [AccInit EXCEPT !.pc = "accept", !.ctx = TRUE, !.bound = TRUE, !.binds = 1,
                    !.emitted = 1, !.accepts = k, !.upgraded = k]

Delivered == [queue |-> <<"Connected">>, rxAlive |-> TRUE, seen |-> "none"]

SpawnedAs(k) == IF k = "chan" THEN NewSession("chan", "own")
                ELSE NewSession("ws", "shared")

\* One Session, channel-backed (launch) or socket-backed (the first
\* connection of the listener), and its peer.
SessInit ==
    \E k \in {"chan", "ws"} :
        /\ acc = AccServing(IF k = "ws" THEN 1 ELSE 0)
        /\ events = Delivered
        /\ sess = [s \in Slots |-> IF s = 1 THEN SpawnedAs(k) ELSE NoSession]

SessNext == Peer(1) \/ Session(1)

SessSpec == SessInit /\ [][SessNext]_vars

\* One Session and a peer that also reads what the Session sends. (Reading
\* takes nothing from the program, the channels being unbounded, so the
\* other specifications leave the peer's read position where it starts.)
DrainNext == SessNext \/ PeerRead(1)

DrainSpec == SessInit /\ [][DrainNext]_vars

\* A channel Session that is first polled after its caller has dropped the
\* request sender: the requests submitted until then are all queued at the
\* drop.
QueuedInit ==
    /\ acc = AccInit
    /\ events = [queue |-> <<>>, rxAlive |-> TRUE, seen |-> "none"]
    /\ sess = [s \in Slots |-> IF s = 1 THEN SpawnedAs("chan") ELSE NoSession]

QueuedSession == ~sess[1].txAlive /\ Session(1)

QueuedNext == Peer(1) \/ PeerRead(1) \/ QueuedSession

QueuedSpec == QueuedInit /\ [][QueuedNext]_vars

\* A spawned task that can take a step is polled; a dispatcher call that
\* does not hang returns.
SessFair(s) ==
    /\ WF_vars(SessRecv(s))
    /\ WF_vars(SessSend(s))
    /\ WF_vars(DispatchOk(s) \/ DispatchErr(s))

FairSessSpec == SessSpec /\ SessFair(1)

\* Two concurrent Sessions, each of either kind, and their peers.
PairInit ==
    \E k1, k2 \in {"chan", "ws"} :
        /\ acc = AccServing(Cardinality({i \in 1..2 : <<k1, k2>>[i] = "ws"}))
        /\ events = Delivered
        /\ sess = [s \in Slots |-> IF s = 1 THEN SpawnedAs(k1)
                                   ELSE IF s = 2 THEN SpawnedAs(k2)
                                   ELSE NoSession]

PairNext == \E s \in 1..2 : Peer(s) \/ Session(s)

PairSpec == PairInit /\ [][PairNext]_vars

FairPairSpec == PairSpec /\ SessFair(1) /\ SessFair(2)

--------------------------------------------------------------------------
(* The two transports side by side *)

\* One channel-backed and one socket-backed Session whose peers and whose
\* dispatchers do the same thing at the same time.
EqInit ==
    /\ acc = AccServing(1)
    /\ events = Delivered
    /\ sess = [s \in Slots |-> IF s = 1 THEN SpawnedAs("chan")
                               ELSE IF s = 2 THEN SpawnedAs("ws")
                               ELSE NoSession]

\* Both Sessions after a step: a in slot 1, b in slot 2.
Both(a, b) == [sess EXCEPT ![1] = a, ![2] = b]

MaySubmit(r) == CanSubmit(r) /\ r.submitted < MaxReq

EqSubmit ==
    /\ MaySubmit(sess[1]) \/ MaySubmit(sess[2])
    /\ sess' = Both(IF MaySubmit(sess[1]) THEN Submit(sess[1]) ELSE sess[1],
                     IF MaySubmit(sess[2]) THEN Submit(sess[2]) ELSE sess[2])
    /\ UNCHANGED <<acc, events>>

EqClose ==
    /\ CanClose(sess[1]) \/ CanClose(sess[2])
    /\ sess' = Both(IF CanClose(sess[1]) THEN CloseGracefully(sess[1]) ELSE sess[1],
                     IF CanClose(sess[2]) THEN CloseGracefully(sess[2]) ELSE sess[2])
    /\ UNCHANGED <<acc, events>>

EqStopReading ==
    /\ CanStopReading(sess[1]) \/ CanStopReading(sess[2])
    /\ sess' = Both(IF CanStopReading(sess[1]) THEN StopReading(sess[1]) ELSE sess[1],
                     IF CanStopReading(sess[2]) THEN StopReading(sess[2]) ELSE sess[2])
    /\ UNCHANGED <<acc, events>>

EqDisconnect ==
    /\ CanDisconnect(sess[1]) \/ CanDisconnect(sess[2])
    /\ sess' = Both(IF CanDisconnect(sess[1]) THEN Disconnect(sess[1]) ELSE sess[1],
                     IF CanDisconnect(sess[2]) THEN Disconnect(sess[2]) ELSE sess[2])
    /\ UNCHANGED <<acc, events>>

EqRecv ==
    /\ RunRecvReady(sess[1]) \/ RunRecvReady(sess[2])
    /\ sess' = Both(IF RunRecvReady(sess[1]) THEN RunRecv(sess[1]) ELSE sess[1],
                     IF RunRecvReady(sess[2]) THEN RunRecv(sess[2]) ELSE sess[2])
    /\ UNCHANGED <<acc, events>>

EqDispatchOk ==
    /\ Dispatching(sess[1]) \/ Dispatching(sess[2])
    /\ \E n \in 0..MaxResp :
          sess' = Both(IF Dispatching(sess[1]) THEN RunDispatchOk(sess[1], n) ELSE sess[1],
                           IF Dispatching(sess[2]) THEN RunDispatchOk(sess[2], n) ELSE sess[2])
    /\ UNCHANGED <<acc, events>>

EqDispatchErr ==
    /\ Dispatching(sess[1]) \/ Dispatching(sess[2])
    /\ sess' = Both(IF Dispatching(sess[1]) THEN RunDispatchErr(sess[1]) ELSE sess[1],
                     IF Dispatching(sess[2]) THEN RunDispatchErr(sess[2]) ELSE sess[2])
    /\ UNCHANGED <<acc, events>>

EqDispatchHang ==
    /\ Dispatching(sess[1]) \/ Dispatching(sess[2])
    /\ sess' = Both(IF Dispatching(sess[1]) THEN RunDispatchHang(sess[1]) ELSE sess[1],
                     IF Dispatching(sess[2]) THEN RunDispatchHang(sess[2]) ELSE sess[2])
    /\ UNCHANGED <<acc, events>>

EqSend ==
    /\ RunSendReady(sess[1]) \/ RunSendReady(sess[2])
    /\ sess' = Both(IF RunSendReady(sess[1]) THEN RunSend(sess[1]) ELSE sess[1],
                     IF RunSendReady(sess[2]) THEN RunSend(sess[2]) ELSE sess[2])
    /\ UNCHANGED <<acc, events>>

EqNext ==
    \/ EqSubmit
    \/ EqClose
    \/ EqStopReading
    \/ EqDisconnect
    \/ EqRecv
    \/ EqDispatchOk
    \/ EqDispatchErr
    \/ EqDispatchHang
    \/ EqSend

EqSpec == EqInit /\ [][EqNext]_vars

--------------------------------------------------------------------------
(* Properties *)

Live == {s \in Slots : sess[s].kind # "none"}

WsSessions == {s \in Slots : sess[s].kind = "ws"}

InLoop == acc.pc \in {"accept", "handshake"}

\* C1: a connection whose upgrade handshake fails is dropped alone: the
\* acceptor stays in its accept loop (only a failure of accept itself ends
\* it), so a later connection is still accepted. (Spec)
C1_HandshakeFailureIsolated ==
    acc.hsFailed > 0 => InLoop \/ acc.exit = "accept"

\* C2: once Executor::new has failed in launch_websocket no socket is bound,
\* Connected is never emitted and no Session is spawned by the acceptor; and
\* launch creates a Session only with the context it built, so a failed
\* Executor::new in launch creates none. (ListenerSpec)
C2_ContextFailureAborts ==
    /\ acc.exit = "ctx" =>
          /\ acc.pc = "done" /\ ~acc.ctx
          /\ ~acc.bound /\ acc.binds = 0
          /\ acc.emitted = 0 /\ events.queue = <<>>
          /\ acc.accepts = 0 /\ WsSessions = {}
    /\ \A s \in Live : sess[s].ctx # "none"
    /\ \A s \in Live : sess[s].kind = "chan" <=> sess[s].ctx = "own"

C2_Witness ==
    /\ acc.exit = "ctx" /\ acc.pc = "done"
    /\ \E s \in Slots : sess[s].kind = "chan" /\ sess[s].st = "Closed"

\* C3: in one Session the requests are received in the order submitted, one
\* at a time, and the responses of request k are all sent, in the order
\* produced, before request k+1 is received. (SessSpec)
Sent(r) == r.outbox \o r.pending

\* Response q directly follows response p in the response stream.
Follows(p, q) == \/ q[1] = p[1] /\ q[2] = p[2] + 1
                 \/ q[1] > p[1] /\ q[2] = 1

InOrder(r) ==
    /\ \A i \in 1..Len(Sent(r)) - 1 : Follows(Sent(r)[i], Sent(r)[i + 1])
    /\ Sent(r) # <<>> => Sent(r)[1][2] = 1
    /\ \A i \in 1..Len(r.pending) : r.pending[i][1] = r.cur
    /\ \A i \in 1..Len(r.outbox) :
          r.outbox[i][1] <= (IF r.cur = 0 THEN r.served ELSE r.cur)
    /\ r.st = "Idle" => r.cur = 0 /\ r.pending = <<>>
    /\ r.st = "Handling" => r.cur = r.served + 1

C3_RequestOrder ==
    /\ [](\A s \in Live : InOrder(sess[s]))
    /\ [][\A s \in Live :
            /\ (sess'[s].cur # sess[s].cur /\ sess'[s].cur # 0) =>
                  /\ sess[s].st = "Idle" /\ sess[s].pending = <<>>
                  /\ sess'[s].cur = sess[s].served + 1
            /\ (sess'[s].pending # sess[s].pending /\ sess[s].pending # <<>>
                    /\ sess'[s].st # "Closed") =>
                  /\ sess'[s].outbox = Append(sess[s].outbox, Head(sess[s].pending))
                  /\ sess'[s].pending = Tail(sess[s].pending)]_vars

C3_Witness ==
    \E s \in Live :
        /\ sess[s].served = 2 /\ sess[s].st = "Idle"
        /\ sess[s].outbox = <<<<1, 1>>, <<1, 2>>, <<2, 1>>, <<2, 2>>>>

\* The peer has dropped both of its endpoints / the socket is disconnected.
Exhausted(r) == r.kind # "none" /\ ~r.txAlive /\ ~r.rxAlive

\* C4 as stated: a Session whose transport is permanently unavailable
\* eventually reaches Closed. (FairSessSpec)
C4_ExhaustedLeadsToClosed ==
    \A s \in Slots : Exhausted(sess[s]) ~> (sess[s].st = "Closed")

\* C4 as amended: a Session whose transport is permanently unavailable
\* eventually reaches Closed unless the dispatcher call it is in never
\* returns; it stays neither in Idle nor in the sending of responses.
\* (FairSessSpec)
C4_ExhaustedLeadsToClosedOrHung ==
    \A s \in Slots :
        Exhausted(sess[s]) ~> (sess[s].st = "Closed" \/ sess[s].hung)

C4_Witness ==
    \E s \in Slots :
        /\ Exhausted(sess[s]) /\ sess[s].st = "Closed"
        /\ sess[s].cause = "Recv" /\ sess[s].served > 0

\* The next thing the Session would receive is a request.
HasRequest(r) ==
    r.inq # <<>> /\ (r.kind = "chan" \/ IsRequest(Head(r.inq)))

\* C5: while the dispatcher call of Session a never returns, a request
\* waiting on Session b is received and dispatched, and its handling ends
\* with every response sent and b Idle again, unless b's own dispatcher
\* fails or hangs or b's own send fails. (FairPairSpec)
C5_HungSessionBlocksNoOther ==
    \A a, b \in 1..2 :
        a # b =>
            /\ (sess[a].hung /\ sess[b].st = "Idle" /\ HasRequest(sess[b]))
                  ~> (sess[b].st = "Handling")
            /\ (sess[a].hung /\ sess[b].st = "Handling")
                  ~> (\/ sess[b].st = "Idle" /\ sess[b].pending = <<>>
                      \/ sess[b].st = "Closed"
                      \/ sess[b].hung)

C5_Witness ==
    \E a, b \in 1..2 :
        /\ a # b /\ sess[a].hung
        /\ sess[b].served > 0 /\ sess[b].outbox # <<>> /\ sess[b].st = "Idle"

\* The handling of a request submitted after the peer dropped its response
\* receiver has ended.
HandledAfterDrop(r) ==
    /\ r.kind = "chan" /\ ~r.rxAlive
    /\ r.served > r.dropAt \/ (r.st = "Closed" /\ r.cur > r.dropAt)

\* C6 as stated: once a channel-backed Session has handled a request that
\* was submitted after the response receiver was dropped, it is Closed, by a
\* transport error of send. (SessSpec)
C6_DroppedReceiverClosesSession ==
    \A s \in Slots :
        HandledAfterDrop(sess[s]) =>
            sess[s].st = "Closed" /\ sess[s].cause = "Send"

\* C6 as amended: for a request received after the response receiver was
\* dropped, the first response the dispatcher produces is not sent: the send
\* fails and the Session goes to Closed with that transport error. (A
\* dispatcher that produces no response leaves the Session Idle, one that
\* fails closes it with the dispatch error.) (SessSpec)
C6_SendToDroppedReceiverCloses ==
    [][\A s \in Slots :
         (/\ sess[s].kind = "chan" /\ ~sess[s].rxAlive
          /\ sess[s].cur > sess[s].dropAt
          /\ sess[s].pending # <<>>
          /\ sess'[s].pending # sess[s].pending) =>
            /\ sess'[s].st = "Closed" /\ sess'[s].cause = "Send"
            /\ sess'[s].outbox = sess[s].outbox]_vars

C6_Witness ==
    \E s \in Slots :
        /\ HandledAfterDrop(sess[s])
        /\ sess[s].st = "Closed" /\ sess[s].cause = "Send"
        /\ sess[s].cur = sess[s].dropAt + 1 /\ sess[s].outbox = <<>>

\* C7: Connected is emitted at most once, exactly once when the bind has
\* succeeded and the task is past the emission, never without a successful
\* bind, and before the first connection is accepted. (ListenerSpec)
C7_ConnectedOnce ==
    /\ acc.emitted <= 1 /\ Len(events.queue) <= acc.emitted
    /\ acc.emitted > 0 => acc.bound
    /\ (acc.bound /\ acc.pc # "emit") => acc.emitted = 1
    /\ (acc.accepts > 0 \/ WsSessions # {}) => acc.emitted = 1

C7_Witness ==
    /\ acc.emitted = 1 /\ events.queue = <<"Connected">>
    /\ acc.upgraded = 2 /\ Cardinality(WsSessions) = 2

\* What a Session shows of itself over its transport.
EqView(r) ==
    [st |-> r.st, cur |-> r.cur, pending |-> r.pending, outbox |-> r.outbox,
     hung |-> r.hung, cause |-> r.cause, served |-> r.served,
     submitted |-> r.submitted, waiting |-> ~RunRecvReady(r)]

C9_DispatchFailureIsolated ==
    [][\A s \in Slots :
         (sess[s].st = "Handling" /\ sess'[s].st = "Closed"
              /\ sess'[s].cause = "Dispatch") =>
            /\ \A t \in Slots \ {s} : sess'[t] = sess[t]
            /\ acc' = acc /\ events' = events]_vars

C9_Witness ==
    \E s, t \in Slots :
        /\ sess[s].st = "Closed" /\ sess[s].cause = "Dispatch"
        /\ sess[t].kind # "none" /\ sess[t].st = "Handling"
        /\ acc.pc = "accept"

\* C10: a failed bind is the only bind attempted, and after it Connected is
\* never emitted, no connection accepted and no Session spawned by the
\* acceptor. (ListenerSpec)
C10_BindFailureFatal ==
    /\ acc.binds <= 1
    /\ acc.exit = "bind" =>
          /\ acc.pc = "done" /\ acc.binds = 1 /\ ~acc.bound
          /\ acc.emitted = 0 /\ events.queue = <<>>
          /\ acc.accepts = 0 /\ acc.upgraded = 0 /\ WsSessions = {}

C10_Witness ==
    /\ acc.exit = "bind" /\ acc.pc = "done" /\ acc.binds = 1
    /\ \E s \in Slots : sess[s].kind = "chan"

\* C11: once listener.accept() has failed the accept loop is over: the task
\* has returned, and from then on no connection is accepted and no Session
\* spawned by the listener. (ListenerSpec)
C11_AcceptFailureEndsLoop ==
    /\ [](acc.exit = "accept" => acc.pc = "done")
    /\ [][acc.exit = "accept" =>
            /\ acc' = acc
            /\ {s \in Slots : sess'[s].kind = "ws"} = WsSessions]_vars

C11_Witness ==
    /\ acc.exit = "accept" /\ acc.pc = "done"
    /\ acc.upgraded = 1 /\ Cardinality(WsSessions) = 1
    /\ \E s \in Slots : sess[s].kind = "chan"

\* The Connected event was sent to a receiver the observer had dropped.
Undelivered == acc.emitted = 1 /\ ~events.rxAlive /\ events.queue = <<>>

\* C12: a failed delivery of Connected is not fatal: the emitting step leaves
\* the acceptor in the accept loop in the state a successful delivery leaves
\* it in, and afterwards accept and upgrade are enabled as usual and the task
\* ends only on a failure of accept or of the handshake. (ListenerSpec)
C12_UndeliveredEventNotFatal ==
    /\ [](Undelivered =>
            /\ (acc.pc = "accept" /\ HasRoom => ENABLED AcceptOk)
            /\ (acc.pc = "handshake" => ENABLED HandshakeOk)
            /\ (acc.pc = "done" => acc.exit \in {"accept", "handshake"}))
    /\ [][acc.pc = "emit" /\ acc' # acc =>
            acc' = [acc EXCEPT !.pc = "accept", !.emitted = 1]]_vars

C12_Witness ==
    /\ Undelivered
    /\ acc.upgraded = 2
    /\ \A s \in Slots : sess[s].kind = "ws" /\ sess[s].st = "Idle"

\* C13: the acceptor does not wait for Sessions: whenever it is at accept
\* (and the model has a free slot) accepting the next connection is enabled,
\* whatever state the Sessions spawned so far are in. (Spec)
C13_AcceptNeverWaitsForSession ==
    acc.pc = "accept" /\ HasRoom => ENABLED AcceptOk

\* A second connection was accepted while the first Session is handling a
\* request.
C13_Witness ==
    /\ acc.accepts = 2 /\ acc.pc = "handshake"
    /\ sess[1].kind = "ws" /\ sess[1].st = "Handling"

\* C14: a Session is Closed exactly when a receive, a send or the dispatcher
\* has failed; the failing step goes straight to Closed; a Closed Session
\* takes no further step (nothing is retried); and every request that enters
\* Handling is one that was not handled before. (SessSpec)
C14_FailureClosesForGood ==
    /\ [](\A s \in Live : sess[s].cause # "None" <=> sess[s].st = "Closed")
    /\ [][\A s \in Live :
            /\ sess[s].st = "Closed" => sess'[s] = sess[s]
            /\ sess'[s].cause # sess[s].cause =>
                   sess[s].st # "Closed" /\ sess'[s].st = "Closed"
            /\ sess[s].st = "Idle" /\ sess'[s].st = "Handling" =>
                   sess'[s].cur > sess[s].served]_vars

\* One request was answered, the next one's response could not be sent.
C14_Witness ==
    \E s \in Live :
        /\ sess[s].st = "Closed" /\ sess[s].cause = "Send"
        /\ sess[s].served = 1 /\ sess[s].cur = 2 /\ Len(sess[s].outbox) >= 1

\* C15: the listener's Execution Context is built in the one step that
\* precedes bind, hence before any accept, and never again; every Session the
\* acceptor spawns holds that context ("shared"), and a Session's handle
\* never changes. (ListenerSpec)
C15_OneSharedContext ==
    /\ [](/\ acc.binds > 0 \/ acc.accepts > 0 => acc.ctx
          /\ \A s \in WsSessions : sess[s].ctx = "shared" /\ acc.ctx)
    /\ [][/\ acc'.ctx # acc.ctx => acc.pc = "new" /\ acc.accepts = 0 /\ acc'.ctx
          /\ \A s \in Live : sess'[s].ctx = sess[s].ctx]_vars

\* Two Sessions spawned by the acceptor, both on its context.
C15_Witness ==
    /\ acc.ctx /\ acc.upgraded = 2
    /\ \A s \in Slots : sess[s].kind = "ws" /\ sess[s].ctx = "shared"

\* C16: a Closed Session has released its transport, whatever closed it:
\* the peer can submit no more, nothing is sent any more, and a peer that
\* keeps reading gets each response sent before the closure and then the
\* closure itself, and nothing else (every response answers a request it
\* submitted). (DrainSpec)
C16_ClosedReleasesTransport ==
    /\ [](\A s \in Live :
            /\ sess[s].st = "Closed" <=> sess[s].released
            /\ sess[s].released => ~CanSubmit(sess[s]) /\ sess[s].inq = <<>>
            /\ sess[s].eof =>
                   sess[s].released /\ sess[s].read = Len(sess[s].outbox)
            /\ sess[s].released /\ sess[s].rxAlive /\ ~sess[s].eof =>
                   ENABLED PeerRead(s)
            /\ \A i \in 1..Len(sess[s].outbox) :
                   sess[s].outbox[i][1] \in 1..sess[s].submitted)
    /\ [][\A s \in Live :
            sess[s].st = "Closed" => sess'[s].outbox = sess[s].outbox]_vars

\* The caller of launch reads the responses to its first request, the
\* dispatcher fails on the second, and the caller observes the closure.
C16_Witness ==
    \E s \in Live :
        /\ sess[s].kind = "chan" /\ sess[s].cause = "Dispatch"
        /\ sess[s].txAlive /\ sess[s].eof
        /\ sess[s].read = MaxResp /\ sess[s].submitted = 2

\* Connections accepted whose handshake is neither completed nor failed.
Undecided == acc.accepts - (acc.upgraded + acc.hsFailed)

\* C17: at most one accepted connection is in the upgrade handshake, and it
\* is the one the acceptor is busy with; while it is undecided no other
\* connection is accepted. (ListenerSpec)
C17_OneHandshakeAtATime ==
    /\ [](/\ acc.accepts >= acc.upgraded + acc.hsFailed
          /\ Undecided = (IF acc.pc = "handshake" THEN 1 ELSE 0))
    /\ [][acc.pc = "handshake" => acc'.accepts = acc.accepts]_vars

\* The second connection is in its handshake, the first one's Session runs.
C17_Witness ==
    /\ acc.pc = "handshake" /\ acc.accepts = 2 /\ acc.upgraded = 1
    /\ sess[1].kind = "ws" /\ sess[1].st = "Idle"

\* C18: the step that ends the acceptor task changes no Session, and with
\* the acceptor gone every Session still takes the step it is ready for:
\* a receive when Idle, the dispatcher's return while Handling, a send of a
\* pending response. (Spec)
C18_SessionsOutliveAcceptor ==
    /\ [](acc.pc = "done" =>
            \A s \in Live :
                /\ RunRecvReady(sess[s]) => ENABLED SessRecv(s)
                /\ Dispatching(sess[s]) => ENABLED DispatchOk(s)
                /\ RunSendReady(sess[s]) => ENABLED SessSend(s))
    /\ [][acc.pc # "done" /\ acc'.pc = "done" => sess' = sess]_vars

\* accept has failed; the Session of an earlier connection has answered one
\* request and is sending the responses to the next.
C18_Witness ==
    /\ acc.pc = "done" /\ acc.exit = "accept"
    /\ \E s \in WsSessions :
           /\ sess[s].st = "Handling" /\ sess[s].cur = 2
           /\ sess[s].pending # <<>> /\ sess[s].served = 1

\* C19: over a channel whose sender the caller has dropped, recv hands out
\* the queued requests one by one, oldest first, and each is dispatched; it
\* fails only with the queue empty, so a Session closed by recv has handled
\* every request the caller submitted. (QueuedSpec)
C19_QueueDrainedAfterSenderDrop ==
    /\ [](\A s \in Live :
            sess[s].cause = "Recv" =>
                ~sess[s].txAlive /\ sess[s].served = sess[s].submitted)
    /\ [][\A s \in Live :
            sess[s].st = "Idle" /\ sess'[s].st # "Idle" =>
                IF sess[s].inq # <<>>
                THEN /\ sess'[s].st = "Handling"
                     /\ sess'[s].cur = Head(sess[s].inq)
                     /\ sess'[s].cur = sess[s].served + 1
                     /\ sess'[s].inq = Tail(sess[s].inq)
                ELSE sess'[s].st = "Closed" /\ sess'[s].cause = "Recv"]_vars

\* Both requests queued at the drop were answered before recv failed.
C19_Witness ==
    /\ sess[1].cause = "Recv" /\ sess[1].submitted = 2 /\ sess[1].served = 2
    /\ Len(sess[1].outbox) >= 2
    /\ sess[1].outbox[1][1] = 1 /\ sess[1].outbox[Len(sess[1].outbox)][1] = 2

\* C20: an observer that keeps the receiver does not wait forever: it
\* eventually observes Connected, and then bind had succeeded, or the closure
\* of the channel with no event, and then the context or the bind had failed
\* and nothing was sent. (FairStartupSpec)
C20_ObserverNeverWaitsForever ==
    /\ <>(~events.rxAlive \/ events.seen # "none")
    /\ [](events.seen = "Connected" => acc.bound /\ acc.emitted = 1)
    /\ [](events.seen = "closed" =>
            acc.exit \in {"ctx", "bind"} /\ acc.emitted = 0)

\* bind failed and the waiting observer saw the channel close.
C20_Witness ==
    /\ events.seen = "closed" /\ events.rxAlive
    /\ acc.exit = "bind" /\ acc.ctx /\ acc.pc = "done"

==========================================================================
